---- MODULE Spec2Model ----
(***************************************************************************)
(* okta-eventhook-verifier: the options (flags and environment), the       *)
(* verification handler, the completion tracker (sync.WaitGroup + done     *)
(* channel) and the shutdown coordinator (gracefulShutdown /               *)
(* shutdownServer) of src/main.go.                                         *)
(*                                                                         *)
(* Strings whose content matters (header values, response bodies) are      *)
(* sequences of one-character strings.  Paths, methods and content types   *)
(* are atomic strings.                                                     *)
(***************************************************************************)
EXTENDS Integers, Sequences, FiniteSets, Bags, TLC

VARIABLES
    environ,         \* the environment: the text of the four option variables
    address,         \* process-wide listen address
    eventHookPaths,  \* the path option: its text while the options are read,
                     \* the list strings.Split makes of it from then on
    exitWhenDone,    \* process-wide flag
    timeOutHours,    \* process-wide integer option
    mainPc,          \* position of main: "envAddress", "envPaths", "envExit",
                     \* "envTimeout", "context", "register", "listen",
                     \* "serving", "returned", "panicked", "exited"
    regIdx,          \* index of the next path the registration loop handles
    registered,      \* patterns registered with the mux
    wgCount,         \* sync.WaitGroup counter
    once,            \* per handler: the sync.Once done flag
    waiterPc,        \* the wg.Wait goroutine: "unborn", "waiting", "exited"
    doneClosed,      \* the done channel is closed
    ctxDone,         \* ctx.Done() is closed
    stop,            \* number of signals buffered in the stop channel (cap 1)
    coordPc,         \* gracefulShutdown: "start", "select", "shutdown"
    inShutdown,      \* http.Server's inShutdown flag
    listening,       \* the listener is open
    conns,           \* in-flight requests: a bag of request/response records
    exitCode,        \* NoExit while the process lives, then its exit status
    \* history (observation) variables
    decrements,      \* per path: number of wg.Done() calls its handler made
    served,          \* per path: a success response was written at least once
    doneCloses,      \* number of close(done) executions
    observed,        \* sequence of triggers the coordinator's select received
    graceExpired,    \* some server.Shutdown returned because its context expired
    signalsSent,     \* number of operator signals delivered so far
    cut              \* the requests that were in flight when the process exited

vars == <<environ, address, eventHookPaths, exitWhenDone, timeOutHours, mainPc, regIdx, registered,
          wgCount, once, waiterPc, doneClosed, ctxDone, stop, coordPc, inShutdown,
          listening, conns, exitCode, decrements, served, doneCloses, observed,
          graceExpired, signalsSent, cut>>

\* the options, fixed once parsed
cfgVars == <<environ, address, eventHookPaths, exitWhenDone, timeOutHours>>
\* what the end of the process takes away: goroutines, listener, connections
procVars == <<mainPc, exitCode, coordPc, waiterPc, listening, conns, cut>>

----------------------------------------------------------------------------
(* Bounds of the model *)

\* number of requests that can be in flight at the same time
MaxInflight == 2
\* number of operator signals the environment sends
MaxSignals == 1
\* number of shutdownServer calls followed (the coordinator's loop has no exit)
MaxCalls == 2

(* Program constants *)
StatusOK == 200
StatusBadRequest == 400
StopChanCap == 1

\* exit statuses: still running, graceful return of main, os.Exit(1), Go panic
NoExit == "none"
ExitOk == "0"
ExitStartFailed == "1"
ExitPanic == "2"

Paths == {"/a", "/b"}
PathLists == { <<"/a">>, <<"/a", "/b">> }
Methods == {"GET", "POST"}

Space == " "
Quote == "\""

\* the default of --listen-address, ":9000"
DefaultAddress == <<":", "9", "0", "0", "0">>

\* os.Getenv of a variable that is not set is the empty string
Unset == <<>>
NoEnviron == [address |-> Unset, paths |-> Unset, exit |-> Unset, hours |-> Unset]

\* the token of the test fixture, "random-test-shared-key"
FixtureToken ==
    <<"r","a","n","d","o","m","-","t","e","s","t","-",
      "s","h","a","r","e","d","-","k","e","y">>

\* header values a client sends: a blank one, and a token with outer spaces
\* and a quote in it
HeaderValues == { <<Space, Space>>, <<Space, Quote, "a", Space>> }

\* a request's header map restricted to the verification header:
\* has = FALSE when the request does not carry it
Headers ==
    {[has |-> FALSE, val |-> <<>>]} \cup {[has |-> TRUE, val |-> v] : v \in HeaderValues}

----------------------------------------------------------------------------
(* Pure helpers *)

IsSpace(c) == c \in {" ", "\t", "\n", "\r"}

RECURSIVE TrimLeft(_)
TrimLeft(s) ==
    IF s = <<>> THEN <<>>
    ELSE IF IsSpace(Head(s)) THEN TrimLeft(Tail(s)) ELSE s

RECURSIVE TrimRight(_)
TrimRight(s) ==
    IF s = <<>> THEN <<>>
    ELSE IF IsSpace(s[Len(s)]) THEN TrimRight(SubSeq(s, 1, Len(s) - 1)) ELSE s

\* strings.TrimSpace
TrimSpace(s) == TrimRight(TrimLeft(s))

\* r.Header.Get(oktaVerificationHeader): "" when the header is absent
HeaderGet(h) == IF h.has THEN h.val ELSE <<>>

BodyPrefix ==
    <<"{", Quote, "v","e","r","i","f","i","c","a","t","i","o","n", Quote,
      Space, ":", Space, Quote>>
BodySuffix == <<Quote, "}">>

\* a body built from the trimmed value
VerificationBody_Trimmed(h) == BodyPrefix \o TrimSpace(HeaderGet(h)) \o BodySuffix

\* b := `{"verification" : "` + r.Header.Get(...) + `"}`
VerificationBody(h) == BodyPrefix \o HeaderGet(h) \o BodySuffix

\* the two validation checks of the handler
ValidRequest(m, h) == m = "GET" /\ TrimSpace(HeaderGet(h)) # <<>>

\* the letters of the texts below, upper case to lower case
Lower(c) ==
    CASE c = "T" -> "t" [] c = "R" -> "r" [] c = "U" -> "u" [] c = "E" -> "e"
      [] c = "F" -> "f" [] c = "A" -> "a" [] c = "L" -> "l" [] c = "S" -> "s"
      [] OTHER -> c

\* strings.EqualFold: equality of two texts under case folding
EqualFold(s, t) ==
    /\ Len(s) = Len(t)
    /\ \A i \in 1..Len(s) : Lower(s[i]) = Lower(t[i])

TextTrue == <<"t", "r", "u", "e">>

Digits == <<"0", "1", "2", "3", "4", "5", "6", "7", "8", "9">>
IsDigit(c) == \E d \in 1..Len(Digits) : Digits[d] = c
DigitValue(c) == (CHOOSE d \in 1..Len(Digits) : Digits[d] = c) - 1

\* the number a text of decimal digits denotes
RECURSIVE DigitsValue(_)
DigitsValue(s) ==
    IF s = <<>> THEN 0
    ELSE 10 * DigitsValue(SubSeq(s, 1, Len(s) - 1)) + DigitValue(s[Len(s)])

\* strconv.Atoi: an optional sign and at least one digit, nothing else; err
\* is set for any other text (the texts here are far from the 64-bit range)
Atoi(s) ==
    LET signed == s # <<>> /\ Head(s) \in {"+", "-"}
        digits == IF signed THEN Tail(s) ELSE s
    IN  IF digits = <<>> \/ \E i \in 1..Len(digits) : ~IsDigit(digits[i])
        THEN [v |-> 0, err |-> TRUE]
        ELSE [v |-> IF signed /\ Head(s) = "-"
                    THEN 0 - DigitsValue(digits) ELSE DigitsValue(digits),
              err |-> FALSE]

\* strings.Split(s, ","), from the text cur of the current piece on: the
\* pieces between the commas, in order; one empty piece for the empty text
RECURSIVE SplitFrom(_, _)
SplitFrom(s, cur) ==
    IF s = <<>> THEN <<cur>>
    ELSE IF Head(s) = "," THEN <<cur>> \o SplitFrom(Tail(s), <<>>)
    ELSE SplitFrom(Tail(s), Append(cur, Head(s)))

Split(s) == SplitFrom(s, <<>>)

\* the text of a path (paths are atomic strings in the server's model)
PathText(p) ==
    CASE p = "" -> <<>>
      [] p = "/a" -> <<"/", "a">>
      [] p = "/b" -> <<"/", "b">>

PathOf(t) == CHOOSE p \in Paths \cup {""} : PathText(p) = t

\* the list the registration loop ranges over for the path option o
SplitPaths(o) == [i \in 1..Len(Split(o)) |-> PathOf(Split(o)[i])]

Alive == exitCode = NoExit

InFlight == BagToSet(conns)

Put(b, c) == b (+) SetToBag({c})
Take(b, c) == b (-) SetToBag({c})

----------------------------------------------------------------------------
(* Initial state: the options are parsed, nothing is registered yet, the    *)
(* coordinator goroutine has been started (go gracefulShutdown).           *)

\* nothing is registered, no goroutine has run, no request has arrived
Fresh ==
    /\ regIdx = 1
    /\ registered = {}
    /\ wgCount = 0
    /\ once = [p \in Paths |-> FALSE]
    /\ waiterPc = "unborn"
    /\ doneClosed = FALSE
    /\ ctxDone = FALSE
    /\ stop = 0
    /\ coordPc = "start"
    /\ inShutdown = FALSE
    /\ listening = FALSE
    /\ conns = EmptyBag
    /\ exitCode = NoExit
    /\ decrements = [p \in Paths |-> 0]
    /\ served = [p \in Paths |-> FALSE]
    /\ doneCloses = 0
    /\ observed = <<>>
    /\ graceExpired = FALSE
    /\ signalsSent = 0
    /\ cut = {}

\* the options are given by flags alone (no option variable is set in the
\* environment, which is not read again once the options are parsed)
Init ==
    /\ environ = NoEnviron
    /\ address = DefaultAddress
    /\ eventHookPaths \in PathLists
    /\ exitWhenDone \in BOOLEAN
    /\ timeOutHours \in {0, 1}
    /\ mainPc = "register"
    /\ Fresh

\* the process ends: every goroutine stops where it is, the listener and the
\* connections are closed; the requests still in flight are cut off
ProcessExit(code) ==
    /\ exitCode' = code
    /\ mainPc' = "exited"
    /\ coordPc' = "dead"
    /\ waiterPc' = "dead"
    /\ listening' = FALSE
    /\ conns' = EmptyBag
    /\ cut' = {[path |-> c.path, status |-> c.status, fired |-> c.fired] : c \in InFlight}

----------------------------------------------------------------------------
(* main: the options.  flag.Parse() has stored each flag, or its default,   *)
(* in the package variable; the environment is read next, one variable      *)
(* after the other.                                                         *)

\* what the command line gives: --listen-address, --event-hook-paths
\* (default "/"), --exit-when-done (default true), --time-out-hours (default 0)
FlagAddresses == {DefaultAddress, <<":", "8", "1">>}
FlagPaths == {<<"/">>, <<"/", "a">>}
FlagHours == {0, 3}

\* what the environment holds for the four variables
EnvAddresses == {Unset, <<":", "8", "0">>}
EnvPaths == {Unset, <<"/", "b">>}
EnvExits ==
    {Unset, TextTrue, <<"T", "r", "u", "e">>, <<"f", "a", "l", "s", "e">>, <<"1">>}
EnvHours == {Unset, <<"2">>, <<"-", "1">>, <<"0">>, <<"2", "h">>}

Environs ==
    [address : EnvAddresses, paths : EnvPaths, exit : EnvExits, hours : EnvHours]

ConfigInit ==
    /\ environ \in Environs
    /\ address \in FlagAddresses
    /\ eventHookPaths \in FlagPaths
    /\ exitWhenDone \in BOOLEAN
    /\ timeOutHours \in FlagHours
    /\ mainPc = "envAddress"
    /\ Fresh

\* if env := os.Getenv("LISTEN_ADDRESS"); env != "" { address = env }
EnvAddress ==
    /\ mainPc = "envAddress"
    /\ address' = IF environ.address # <<>> THEN environ.address ELSE address
    /\ mainPc' = "envPaths"
    /\ UNCHANGED <<environ, eventHookPaths, exitWhenDone, timeOutHours, regIdx,
                   registered, wgCount, once, waiterPc, doneClosed, ctxDone, stop,
                   coordPc, inShutdown, listening, conns, exitCode, decrements,
                   served, doneCloses, observed, graceExpired, signalsSent, cut>>

\* if env := os.Getenv("EVENT_HOOK_PATHS"); env != "" { eventHookPaths = env }
EnvEventHookPaths ==
    /\ mainPc = "envPaths"
    /\ eventHookPaths' = IF environ.paths # <<>> THEN environ.paths ELSE eventHookPaths
    /\ mainPc' = "envExit"
    /\ UNCHANGED <<environ, address, exitWhenDone, timeOutHours, regIdx,
                   registered, wgCount, once, waiterPc, doneClosed, ctxDone, stop,
                   coordPc, inShutdown, listening, conns, exitCode, decrements,
                   served, doneCloses, observed, graceExpired, signalsSent, cut>>

\* if env := os.Getenv("EXIT_WHEN_DONE"); env != "" {
\*     if strings.EqualFold(env, "true") { exitWhenDone = true } }
EnvExitWhenDone ==
    /\ mainPc = "envExit"
    /\ exitWhenDone' = IF environ.exit # <<>> /\ EqualFold(environ.exit, TextTrue)
                        THEN TRUE ELSE exitWhenDone
    /\ mainPc' = "envTimeout"
    /\ UNCHANGED <<environ, address, eventHookPaths, timeOutHours, regIdx,
                   registered, wgCount, once, waiterPc, doneClosed, ctxDone, stop,
                   coordPc, inShutdown, listening, conns, exitCode, decrements,
                   served, doneCloses, observed, graceExpired, signalsSent, cut>>

\* if env := os.Getenv("TIME_OUT_HOURS"); env != "" {
\*     if v, err := strconv.Atoi(env); err == nil { timeOutHours = v } }
EnvTimeOutHours ==
    /\ mainPc = "envTimeout"
    /\ timeOutHours' = IF environ.hours # <<>> /\ ~Atoi(environ.hours).err
                        THEN Atoi(environ.hours).v ELSE timeOutHours
    /\ mainPc' = "context"
    /\ UNCHANGED <<environ, address, eventHookPaths, exitWhenDone, regIdx,
                   registered, wgCount, once, waiterPc, doneClosed, ctxDone, stop,
                   coordPc, inShutdown, listening, conns, exitCode, decrements,
                   served, doneCloses, observed, graceExpired, signalsSent, cut>>

ConfigNext ==
    \/ EnvAddress
    \/ EnvEventHookPaths
    \/ EnvExitWhenDone
    \/ EnvTimeOutHours

\* main from the end of flag.Parse() to the last environment override
ConfigSpec == ConfigInit /\ [][ConfigNext]_vars

----------------------------------------------------------------------------
(* main *)

\* one iteration of the registration loop: wg.Add(1), then mux.Handle, which
\* panics on an empty pattern or on a pattern that is already registered.
\* The panic unwinds main: its deferred cancel() runs before the process dies
RegisterPath ==
    /\ Alive /\ mainPc = "register" /\ regIdx <= Len(eventHookPaths)
    /\ LET path == eventHookPaths[regIdx] IN
        /\ wgCount' = wgCount + 1
        /\ IF path = "" \/ path \in registered
           THEN /\ mainPc' = "panicked"
                /\ ctxDone' = TRUE
                /\ UNCHANGED <<regIdx, registered>>
           ELSE /\ registered' = registered \cup {path}
                /\ regIdx' = regIdx + 1
                /\ UNCHANGED <<mainPc, ctxDone>>
    /\ UNCHANGED <<cfgVars, once, waiterPc, doneClosed, stop, coordPc, inShutdown,
                   listening, conns, exitCode, decrements, served, doneCloses,
                   observed, graceExpired, signalsSent, cut>>

\* go func() { wg.Wait(); close(done) }()
SpawnWaiter ==
    /\ Alive /\ mainPc = "register" /\ regIdx > Len(eventHookPaths)
    /\ waiterPc' = "waiting"
    /\ mainPc' = "listen"
    /\ UNCHANGED <<cfgVars, regIdx, registered, wgCount, once, doneClosed, ctxDone,
                   stop, coordPc, inShutdown, listening, conns, exitCode, decrements,
                   served, doneCloses, observed, graceExpired, signalsSent, cut>>

\* server.ListenAndServe() binds the listener and starts serving
ListenOk ==
    /\ Alive /\ mainPc = "listen" /\ ~inShutdown
    /\ listening' = TRUE
    /\ mainPc' = "serving"
    /\ UNCHANGED <<cfgVars, regIdx, registered, wgCount, once, waiterPc, doneClosed,
                   ctxDone, stop, coordPc, inShutdown, conns, exitCode, decrements,
                   served, doneCloses, observed, graceExpired, signalsSent, cut>>

\* server.ListenAndServe() fails to bind: log.Error, os.Exit(1)
ListenFail ==
    /\ Alive /\ mainPc = "listen" /\ ~inShutdown
    /\ ProcessExit(ExitStartFailed)
    /\ UNCHANGED <<cfgVars, regIdx, registered, wgCount, once, doneClosed, ctxDone,
                   stop, inShutdown, decrements, served, doneCloses, observed,
                   graceExpired, signalsSent>>

\* ListenAndServe returns http.ErrServerClosed as soon as Shutdown has been
\* called (before or while serving); main returns, and its deferred cancel()
\* runs: ctx is done from here on
ServeReturn ==
    /\ Alive /\ mainPc \in {"listen", "serving"} /\ inShutdown
    /\ mainPc' = "returned"
    /\ ctxDone' = TRUE
    /\ UNCHANGED <<cfgVars, regIdx, registered, wgCount, once, waiterPc, doneClosed,
                   stop, coordPc, inShutdown, listening, conns, exitCode, decrements,
                   served, doneCloses, observed, graceExpired, signalsSent, cut>>

\* main has returned (exit status 0) or its panic has unwound (exit status 2):
\* the runtime ends the process, whatever the other goroutines are doing
MainExit ==
    /\ Alive /\ mainPc \in {"returned", "panicked"}
    /\ ProcessExit(IF mainPc = "returned" THEN ExitOk ELSE ExitPanic)
    /\ UNCHANGED <<cfgVars, regIdx, registered, wgCount, once, doneClosed, ctxDone,
                   stop, inShutdown, decrements, served, doneCloses, observed,
                   graceExpired, signalsSent>>

\* a wait that returns while one handler is still outstanding
WaitReturns_OffByOne == wgCount <= 1

\* wg.Wait() returns when the counter is zero
WaitReturns == wgCount = 0

\* the aggregator goroutine: wg.Wait() returns at counter zero, then close(done)
WaiterClose ==
    /\ Alive /\ waiterPc = "waiting" /\ WaitReturns
    /\ doneClosed' = TRUE
    /\ doneCloses' = doneCloses + 1
    /\ waiterPc' = "exited"
    /\ UNCHANGED <<cfgVars, mainPc, regIdx, registered, wgCount, once, ctxDone, stop,
                   coordPc, inShutdown, listening, conns, exitCode, decrements,
                   served, observed, graceExpired, signalsSent, cut>>

----------------------------------------------------------------------------
(* gracefulShutdown and shutdownServer *)

\* stop := make(chan os.Signal, 1); signal.Notify(stop, os.Interrupt, SIGTERM)
Notify ==
    /\ Alive /\ coordPc = "start"
    /\ coordPc' = "select"
    /\ UNCHANGED <<cfgVars, mainPc, regIdx, registered, wgCount, once, waiterPc,
                   doneClosed, ctxDone, stop, inShutdown, listening, conns, exitCode,
                   decrements, served, doneCloses, observed, graceExpired,
                   signalsSent, cut>>

\* shutdownServer up to the point where server.Shutdown blocks: Shutdown sets
\* inShutdown and closes the listener, then waits for the connections
ShutdownServer(trigger) ==
    /\ Len(observed) < MaxCalls
    /\ observed' = Append(observed, trigger)
    /\ coordPc' = "shutdown"
    /\ inShutdown' = TRUE
    /\ listening' = FALSE

\* case <-stop
SelectStop ==
    /\ Alive /\ coordPc = "select" /\ stop > 0
    /\ stop' = stop - 1
    /\ ShutdownServer("signal")
    /\ UNCHANGED <<cfgVars, mainPc, regIdx, registered, wgCount, once, waiterPc,
                   doneClosed, ctxDone, conns, exitCode, decrements, served,
                   doneCloses, graceExpired, signalsSent, cut>>

\* case <-done (a closed channel is always ready)
SelectDone ==
    /\ Alive /\ coordPc = "select" /\ doneClosed
    /\ ShutdownServer("done")
    /\ UNCHANGED <<cfgVars, mainPc, regIdx, registered, wgCount, once, waiterPc,
                   doneClosed, ctxDone, stop, conns, exitCode, decrements, served,
                   doneCloses, graceExpired, signalsSent, cut>>

\* a timeout case that logs "timed out" and does not call shutdownServer
SelectTimeout_LogOnly ==
    /\ Alive /\ coordPc = "select" /\ ctxDone
    /\ UNCHANGED vars

\* case <-ctx.Done() (stays ready once the context is done)
SelectTimeout ==
    /\ Alive /\ coordPc = "select" /\ ctxDone
    /\ ShutdownServer("timeout")
    /\ UNCHANGED <<cfgVars, mainPc, regIdx, registered, wgCount, once, waiterPc,
                   doneClosed, ctxDone, stop, conns, exitCode, decrements, served,
                   doneCloses, graceExpired, signalsSent, cut>>

\* server.Shutdown returns nil: no connection is busy any more; back to the loop
ShutdownReturnOk ==
    /\ Alive /\ coordPc = "shutdown" /\ InFlight = {}
    /\ coordPc' = "select"
    /\ UNCHANGED <<cfgVars, mainPc, regIdx, registered, wgCount, once, waiterPc,
                   doneClosed, ctxDone, stop, inShutdown, listening, conns, exitCode,
                   decrements, served, doneCloses, observed, graceExpired,
                   signalsSent, cut>>

\* server.Shutdown returns the context's error after 30 s with connections
\* still busy; the error is logged; back to the loop
ShutdownReturnExpired ==
    /\ Alive /\ coordPc = "shutdown" /\ InFlight # {}
    /\ coordPc' = "select"
    /\ graceExpired' = TRUE
    /\ UNCHANGED <<cfgVars, mainPc, regIdx, registered, wgCount, once, waiterPc,
                   doneClosed, ctxDone, stop, inShutdown, listening, conns, exitCode,
                   decrements, served, doneCloses, observed, signalsSent, cut>>

----------------------------------------------------------------------------
(* Environment: operator signals and the deadline of the context *)

\* SIGINT or SIGTERM delivered after signal.Notify: a non-blocking send on
\* the stop channel, dropped when its buffer is full
OperatorSignal ==
    /\ Alive /\ coordPc # "start" /\ signalsSent < MaxSignals
    /\ signalsSent' = signalsSent + 1
    /\ stop' = IF stop < StopChanCap THEN stop + 1 ELSE stop
    /\ UNCHANGED <<cfgVars, mainPc, regIdx, registered, wgCount, once, waiterPc,
                   doneClosed, ctxDone, coordPc, inShutdown, listening, conns,
                   exitCode, decrements, served, doneCloses, observed, graceExpired,
                   cut>>

\* context.WithTimeout is only created for timeOutHours > 0; its deadline
\* passes.  The deadline is a whole number of hours after start: start-up
\* (registration, bind) is over by then
Deadline ==
    /\ Alive /\ timeOutHours > 0 /\ ~ctxDone /\ mainPc = "serving"
    /\ ctxDone' = TRUE
    /\ UNCHANGED <<cfgVars, mainPc, regIdx, registered, wgCount, once, waiterPc,
                   doneClosed, stop, coordPc, inShutdown, listening, conns, exitCode,
                   decrements, served, doneCloses, observed, graceExpired,
                   signalsSent, cut>>

----------------------------------------------------------------------------
(* verificationHandler *)

\* a handler whose header check does not trim
Respond_NoTrim(m, h, wok) ==
    IF m # "GET" \/ HeaderGet(h) = <<>> THEN
        [status |-> StatusBadRequest, ctype |-> "", body |-> <<>>, werr |-> FALSE]
    ELSE
        [status |-> StatusOK, ctype |-> "application/json",
         body |-> IF wok THEN VerificationBody(h) ELSE <<>>, werr |-> ~wok]

\* the response the handler produces for method m and header h when the write
\* of the body succeeds (wok) or fails
Respond(m, h, wok) ==
    IF m # "GET" THEN
        [status |-> StatusBadRequest, ctype |-> "", body |-> <<>>, werr |-> FALSE]
    ELSE IF TrimSpace(HeaderGet(h)) = <<>> THEN
        [status |-> StatusBadRequest, ctype |-> "", body |-> <<>>, werr |-> FALSE]
    ELSE
        [status |-> StatusOK, ctype |-> "application/json",
         body |-> IF wok THEN VerificationBody(h) ELSE <<>>, werr |-> ~wok]

\* a handler that goes on after answering 400 (the return is missing)
ReachesLatch_NoReturn(m, h, wok) == wok

\* a handler that goes on to the latch although fmt.Fprintf returned an error
ReachesLatch_IgnoreWriteError(m, h, wok) == ValidRequest(m, h)

\* the handler reaches the code after the write only when both checks passed
\* and fmt.Fprintf returned no error
ReachesLatch(m, h, wok) == ValidRequest(m, h) /\ wok

\* a handler without the latch code
LatchEnabled_Never == FALSE

\* a handler that fires the latch whatever the flag says
LatchEnabled_Always == TRUE

\* if exitWhenDone { once.Do(...) }
LatchEnabled == exitWhenDone

\* a Once whose slow path does not re-read the flag under the mutex
OnceRunsF_NoRecheck(p) == TRUE

\* sync.Once.Do runs f only while its done flag is unset; the flag is
\* re-read under the Once's mutex
OnceRunsF(p) == ~once[p]

\* the in-flight request once the handler has validated it and written (or
\* failed to write) the response into the connection's buffer
NewConn(p, m, h, wok) ==
    LET r == Respond(m, h, wok) IN
    [pc |-> IF ReachesLatch(m, h, wok) THEN "fire" ELSE "flush",
     path |-> p, method |-> m, header |-> h,
     status |-> r.status, ctype |-> r.ctype, body |-> r.body, werr |-> r.werr,
     fired |-> FALSE]

\* A request for a registered path is accepted, routed and handled up to the
\* end of the response write: the two checks, the header and status, the body
HandleRequest(p, m, h, wok) ==
    /\ Alive /\ listening /\ p \in registered
    /\ BagCardinality(conns) < MaxInflight
    /\ LET c == NewConn(p, m, h, wok) IN
        /\ conns' = Put(conns, c)
        /\ served' = IF c.status = StatusOK /\ ~c.werr
                      THEN [served EXCEPT ![p] = TRUE] ELSE served
    /\ UNCHANGED <<cfgVars, mainPc, regIdx, registered, wgCount, once, waiterPc,
                   doneClosed, ctxDone, stop, coordPc, inShutdown, listening,
                   exitCode, decrements, doneCloses, observed, graceExpired,
                   signalsSent, cut>>

\* if exitWhenDone { once.Do(...) }: the flag, and the fast path of Do, an
\* atomic load of the done flag
EnterOnce(c) ==
    /\ Alive /\ c \in InFlight /\ c.pc = "fire"
    /\ conns' = Put(Take(conns, c),
                    [c EXCEPT !.pc = IF LatchEnabled /\ ~once[c.path]
                                     THEN "doSlow" ELSE "flush"])
    /\ UNCHANGED <<cfgVars, mainPc, regIdx, registered, wgCount, once, waiterPc,
                   doneClosed, ctxDone, stop, coordPc, inShutdown, listening,
                   exitCode, decrements, served, doneCloses, observed,
                   graceExpired, signalsSent, cut>>

\* a slow path whose decrement of the counter is lost
DoSlow_LostUpdate(c) ==
    /\ Alive /\ c \in InFlight /\ c.pc = "doSlow"
    /\ IF OnceRunsF(c.path)
       THEN /\ decrements' = [decrements EXCEPT ![c.path] = @ + 1]
            /\ once' = [once EXCEPT ![c.path] = TRUE]
            /\ conns' = Put(Take(conns, c), [c EXCEPT !.pc = "flush", !.fired = TRUE])
       ELSE /\ conns' = Put(Take(conns, c), [c EXCEPT !.pc = "flush"])
            /\ UNCHANGED <<decrements, once>>
    /\ UNCHANGED <<cfgVars, mainPc, regIdx, registered, wgCount, waiterPc,
                   doneClosed, ctxDone, stop, coordPc, inShutdown, listening,
                   exitCode, served, doneCloses, observed, graceExpired,
                   signalsSent, cut>>

\* the slow path of Do, under the mutex: run wg.Done() if the flag is still
\* unset, then set it.  wg.Done() panics on a negative counter, after it has
\* updated the counter; Do's deferred store still sets the flag, and the
\* server recovers the panic of a handler and closes its connection
DoSlow(c) ==
    /\ Alive /\ c \in InFlight /\ c.pc = "doSlow"
    /\ IF OnceRunsF(c.path)
       THEN /\ wgCount' = wgCount - 1
            /\ decrements' = [decrements EXCEPT ![c.path] = @ + 1]
            /\ once' = [once EXCEPT ![c.path] = TRUE]
            /\ conns' = IF wgCount - 1 < 0
                         THEN Take(conns, c)
                         ELSE Put(Take(conns, c),
                                  [c EXCEPT !.pc = "flush", !.fired = TRUE])
       ELSE /\ conns' = Put(Take(conns, c), [c EXCEPT !.pc = "flush"])
            /\ UNCHANGED <<wgCount, decrements, once>>
    /\ UNCHANGED <<cfgVars, mainPc, regIdx, registered, waiterPc, doneClosed,
                   ctxDone, stop, coordPc, inShutdown, listening, exitCode,
                   served, doneCloses, observed, graceExpired, signalsSent, cut>>

\* the handler has returned: the server flushes the buffered response to the
\* client and the connection is no longer busy
Flush(c) ==
    /\ Alive /\ c \in InFlight /\ c.pc = "flush"
    /\ conns' = Take(conns, c)
    /\ UNCHANGED <<cfgVars, mainPc, regIdx, registered, wgCount, once, waiterPc,
                   doneClosed, ctxDone, stop, coordPc, inShutdown, listening,
                   exitCode, decrements, served, doneCloses, observed,
                   graceExpired, signalsSent, cut>>

----------------------------------------------------------------------------
Request ==
    \E p \in Paths, m \in Methods, h \in Headers, wok \in BOOLEAN :
        HandleRequest(p, m, h, wok)

Latch == \E c \in InFlight : EnterOnce(c)

LatchSlow == \E c \in InFlight : DoSlow(c)

Deliver == \E c \in InFlight : Flush(c)

Next ==
    \/ RegisterPath
    \/ SpawnWaiter
    \/ ListenOk
    \/ ListenFail
    \/ ServeReturn
    \/ MainExit
    \/ WaiterClose
    \/ Notify
    \/ SelectStop
    \/ SelectDone
    \/ SelectTimeout
    \/ ShutdownReturnOk
    \/ ShutdownReturnExpired
    \/ OperatorSignal
    \/ Deadline
    \/ Request
    \/ Latch
    \/ LatchSlow
    \/ Deliver

Spec == Init /\ [][Next]_vars

\* path options with a repeated path and without any path, and one that
\* lets the server start: "/a", "/a,/a", "/b,/a,/b", ""
StartOptions ==
    { <<"/", "a">>,
      <<"/", "a", ",", "/", "a">>,
      <<"/", "b", ",", "/", "a", ",", "/", "b">>,
      <<>> }

StartInit ==
    /\ environ = NoEnviron
    /\ address = DefaultAddress
    /\ eventHookPaths \in {SplitPaths(o) : o \in StartOptions}
    /\ exitWhenDone \in BOOLEAN
    /\ timeOutHours \in {0, 1}
    /\ mainPc = "register"
    /\ Fresh

\* the program started with any of these path options
StartSpec == StartInit /\ [][Next]_vars

\* the scheduler runs the runnable goroutines of main, of the aggregator and
\* of the coordinator; the environment (requests, signals, the deadline) is
\* not forced to act
FairSpec ==
    /\ Spec
    /\ WF_vars(RegisterPath)
    /\ WF_vars(SpawnWaiter)
    /\ WF_vars(ListenOk \/ ListenFail)
    /\ WF_vars(ServeReturn)
    /\ WF_vars(MainExit)
    /\ WF_vars(WaiterClose)
    /\ WF_vars(Notify)
    /\ WF_vars(SelectStop \/ SelectDone \/ SelectTimeout)
    /\ WF_vars(ShutdownReturnOk \/ ShutdownReturnExpired)

\* the records a request goes through, for the fairness of its goroutine
Accepted ==
    {NewConn(p, m, h, wok) : p \in Paths, m \in Methods, h \in Headers, wok \in BOOLEAN}
AtFire == {c \in Accepted : c.pc = "fire"}
AtDoSlow == {[c EXCEPT !.pc = "doSlow"] : c \in AtFire}
AtFlush ==
    {c \in Accepted : c.pc = "flush"}
        \cup {[c EXCEPT !.pc = "flush"] : c \in AtFire}
        \cup {[c EXCEPT !.pc = "flush", !.fired = TRUE] : c \in AtFire}

\* FairSpec, and the scheduler also runs the goroutine of every request
FairSpecRequests ==
    /\ FairSpec
    /\ \A c \in AtFire : WF_vars(EnterOnce(c))
    /\ \A c \in AtDoSlow : WF_vars(DoSlow(c))
    /\ \A c \in AtFlush : WF_vars(Flush(c))

----------------------------------------------------------------------------
(* Properties *)

Configured == {eventHookPaths[i] : i \in 1..Len(eventHookPaths)}

AllServed == \A p \in Configured : served[p]

\* number of in-flight requests (copies counted) that satisfy Test
RECURSIVE CountIn(_, _)
CountIn(S, b) ==
    IF S = {} THEN 0
    ELSE LET c == CHOOSE x \in S : TRUE IN CopiesIn(c, b) + CountIn(S \ {c}, b)

\* C1: with exit-when-done enabled, each handler's latch fires exactly once
\* however many successful requests its path serves and however they
\* interleave: a handler calls wg.Done() at most once, it has done so exactly
\* when its Once is set, and at most one request per path performed it.
C1_LatchFiresOnce ==
    \A p \in Paths :
        /\ decrements[p] <= 1
        /\ (once[p] <=> decrements[p] = 1)
        /\ CountIn({c \in InFlight : c.path = p /\ c.fired}, conns) <= decrements[p]

\* two successful requests on one path raced into once.Do: one has fired the
\* latch, the other passed the fast path before that and is in the slow path
C1_Witness ==
    \E c, d \in InFlight :
        /\ c.path = d.path
        /\ c.pc = "flush" /\ c.fired
        /\ d.pc = "doSlow"

\* C2: the done channel is closed only when every configured path has served
\* a successful verification, it is closed at most once and stays closed, and
\* the coordinator observes the all-verified trigger only in that case.
C2_AllDoneOnlyAfterAll ==
    /\ [](/\ doneClosed => AllServed
          /\ doneCloses <= 1
          /\ (doneClosed <=> doneCloses = 1)
          /\ (\E i \in 1..Len(observed) : observed[i] = "done") => AllServed)
    /\ [][doneClosed => doneClosed']_vars

\* two paths, both verified, the coordinator has observed all-verified
C2_Witness ==
    /\ Len(eventHookPaths) = 2
    /\ doneClosed
    /\ observed # <<>> /\ observed[1] = "done"

\* C3: the graceful stop is invoked at most once per process lifetime.
C3_ShutdownAtMostOnce == Len(observed) <= 1

\* C4: the process does not exit while a request is in flight, unless the
\* grace period of the graceful stop has elapsed.
C4_NoResponseCutOff ==
    exitCode = ExitOk => (cut = {} \/ graceExpired)

\* the request carries a verification header whose value is not blank
NonBlankToken(c) ==
    c.header.has /\ \E i \in 1..Len(c.header.val) : ~IsSpace(c.header.val[i])

\* C5: a request is answered 200 exactly when its method is GET and its
\* verification header is non-blank; every other request is answered 400 with
\* an empty body.  The latch state and earlier requests play no part.
C5_StatusByRequestOnly ==
    \A c \in InFlight :
        /\ (c.status = 200) <=> (c.method = "GET" /\ NonBlankToken(c))
        /\ c.status # 200 => (c.status = 400 /\ c.body = <<>>)

\* a path whose latch has already fired is verified again and answers 200
C5_Witness ==
    \E c \in InFlight :
        /\ once[c.path] /\ decrements[c.path] = 1 /\ ~c.fired
        /\ c.pc = "fire" /\ c.status = 200 /\ ~c.werr

\* the body the handler is to send for token v
C6_Template(v) ==
    <<"{", "\"", "v", "e", "r", "i", "f", "i", "c", "a", "t", "i", "o", "n", "\"",
      " ", ":", " ", "\"">> \o v \o <<"\"", "}">>

\* C6: a GET with a non-blank token v is answered with Content-Type
\* application/json and, when the write succeeds, the body
\* {"verification" : "<v>"} with v exactly as received; the fixture token
\* random-test-shared-key yields {"verification" : "random-test-shared-key"}.
C6_BodyIsTemplate ==
    /\ \A c \in InFlight :
        (c.method = "GET" /\ NonBlankToken(c)) =>
            /\ c.ctype = "application/json"
            /\ ~c.werr => c.body = C6_Template(c.header.val)
    /\ NewConn("/a", "GET", [has |-> TRUE, val |-> FixtureToken], TRUE).body =
         <<"{", "\"", "v", "e", "r", "i", "f", "i", "c", "a", "t", "i", "o", "n", "\"",
           " ", ":", " ", "\"",
           "r", "a", "n", "d", "o", "m", "-", "t", "e", "s", "t", "-",
           "s", "h", "a", "r", "e", "d", "-", "k", "e", "y", "\"", "}">>

\* a written success response whose token has outer spaces and a quote
C6_Witness ==
    \E c \in InFlight :
        /\ c.status = 200 /\ ~c.werr
        /\ c.header.val = <<Space, Quote, "a", Space>>
        /\ Len(c.body) = 25

\* the step accepts, advances or completes a request that fails validation
InvalidStep ==
    \E c \in InFlight \cup BagToSet(conns') :
        c.status = 400 /\ CopiesIn(c, conns) # CopiesIn(c, conns')

\* C7: a request that fails validation never reaches the latch, and no step
\* of such a request changes a Once, the WaitGroup counter or the done channel.
C7_InvalidLeavesLatch ==
    /\ [](\A c \in InFlight : c.status = 400 => (c.pc = "flush" /\ ~c.fired))
    /\ [][InvalidStep => UNCHANGED <<once, wgCount, decrements, doneClosed>>]_vars

\* an invalid request is in flight on a path whose latch is armed and unfired
C7_Witness ==
    \E c \in InFlight :
        /\ c.status = 400
        /\ exitWhenDone /\ ~once[c.path]
        /\ wgCount = Len(eventHookPaths)

\* C8: with exit-when-done false no latch fires, the counter is never
\* decremented, done is never closed, and the coordinator only ever observes
\* an operator signal or the deadline.
C8_NoExitWhenDisabled ==
    ~exitWhenDone =>
        /\ \A p \in Paths : ~once[p] /\ decrements[p] = 0
        /\ ~doneClosed /\ doneCloses = 0
        /\ \A i \in 1..Len(observed) : observed[i] \in {"signal", "timeout"}
        /\ inShutdown => observed # <<>>

\* every path verified with the flag off, no shutdown so far, and a request
\* that passed the latch code without firing it
C8_Witness ==
    /\ ~exitWhenDone /\ Len(eventHookPaths) = 2 /\ AllServed
    /\ observed = <<>> /\ mainPc = "serving"
    /\ \E c \in InFlight : c.pc = "flush" /\ c.status = 200 /\ ~c.werr

\* C9: with exit-when-done enabled and no timeout, once every configured path
\* has served a successful verification the process eventually terminates
\* with exit code 0 after the coordinator invoked the graceful stop, and the
\* requests whose success fired the latches have received their responses.
C9_VerifiedThenCleanExit ==
    /\ (exitWhenDone /\ timeOutHours = 0 /\ AllServed /\ mainPc = "serving")
           ~> (exitCode = ExitOk /\ observed # <<>>)
    /\ []((exitCode = ExitOk /\ exitWhenDone /\ timeOutHours = 0 /\ signalsSent = 0)
            => \A c \in cut : ~c.fired)

\* the liveness half of C9 alone
C9_EventuallyExits ==
    (exitWhenDone /\ timeOutHours = 0 /\ AllServed /\ mainPc = "serving")
        ~> (exitCode = ExitOk /\ observed # <<>>)

\* C10: with a positive timeout, once the deadline has passed the coordinator
\* invokes the graceful stop and the process exits with code 0; without a
\* signal and without all-verified, the trigger it acted on is the deadline.
C10_DeadlineShutsDown ==
    /\ (timeOutHours > 0 /\ ctxDone /\ Alive)
           ~> (exitCode = ExitOk /\ observed # <<>>)
    /\ []((observed # <<>> /\ signalsSent = 0 /\ ~doneClosed)
            => (timeOutHours > 0 /\ observed[1] = "timeout"))

\* no verification, no signal: the process has exited 0 on the deadline
C10_Witness ==
    /\ exitCode = ExitOk
    /\ timeOutHours > 0 /\ observed[1] = "timeout"
    /\ signalsSent = 0
    /\ \A p \in Paths : ~served[p]

\* C11: once the options are read, each of the four options whose
\* environment variable is set to a non-empty value has the value the
\* variable gives, not the flag's or the default: the address and the path
\* list are the variable's text, EXIT_WHEN_DONE=true gives true and
\* EXIT_WHEN_DONE=false gives false, TIME_OUT_HOURS=n gives n.
C11_EnvironmentWins ==
    mainPc = "context" =>
        /\ environ.address # <<>> => address = environ.address
        /\ environ.paths # <<>> => eventHookPaths = environ.paths
        /\ environ.exit = <<"t", "r", "u", "e">> => exitWhenDone
        /\ environ.exit = <<"f", "a", "l", "s", "e">> => ~exitWhenDone
        /\ environ.hours = <<"2">> => timeOutHours = 2
        /\ environ.hours = <<"0">> => timeOutHours = 0
        /\ environ.hours = <<"-", "1">> => timeOutHours = 0 - 1

\* C11 without the case the code leaves out: a variable that gives the value
\* true, an address, a path list or a number overrides the flag
C11_EnvironmentWinsButFalse ==
    mainPc = "context" =>
        /\ environ.address # <<>> => address = environ.address
        /\ environ.paths # <<>> => eventHookPaths = environ.paths
        /\ environ.exit = <<"t", "r", "u", "e">> => exitWhenDone
        /\ environ.hours = <<"2">> => timeOutHours = 2
        /\ environ.hours = <<"0">> => timeOutHours = 0
        /\ environ.hours = <<"-", "1">> => timeOutHours = 0 - 1

\* the step accepts, advances or completes a request whose write failed
WriteErrorStep ==
    \E c \in InFlight \cup BagToSet(conns') :
        c.werr /\ CopiesIn(c, conns) # CopiesIn(c, conns')

\* C12: a request whose success response could not be written is abandoned
\* without firing the latch: it goes from the failed write straight to the
\* end of the handler, none of its steps changes a Once, the counter or the
\* done channel, and a latch that has fired was fired by a path that served
\* a fully written success.
C12_WriteErrorLeavesLatch ==
    /\ [](\A c \in InFlight : c.werr => (c.pc = "flush" /\ ~c.fired))
    /\ [](\A p \in Paths : once[p] => served[p])
    /\ [][WriteErrorStep => UNCHANGED <<once, wgCount, decrements, doneClosed>>]_vars

\* on one path, a request whose write failed and a request that was written
\* and fired the latch
C12_Witness ==
    \E c, d \in InFlight :
        /\ c.path = d.path
        /\ c.status = 200 /\ c.werr
        /\ d.status = 200 /\ ~d.werr /\ d.fired

\* C13 as stated: with exit-when-done enabled, a request that passed
\* validation has the latch of its path fired by the time its handler ends,
\* whether its write succeeded or failed.
C13_LatchRegardlessOfWrite ==
    \A c \in InFlight :
        (exitWhenDone /\ c.status = 200 /\ c.pc = "flush") => once[c.path]

\* C13: the handler comes to the latch only after the write of the response
\* returned without error: a request at the latch, or one that fired it, has
\* a written success response, and with exit-when-done enabled a request
\* with a written success has the latch of its path fired by the time its
\* handler ends.
C13_LatchAfterWrite ==
    \A c \in InFlight :
        /\ (c.pc \in {"fire", "doSlow"} \/ c.fired) => (c.status = 200 /\ ~c.werr)
        /\ (exitWhenDone /\ c.status = 200 /\ ~c.werr /\ c.pc = "flush")
              => once[c.path]

\* a validated request whose write failed has ended with the latch of its
\* path armed and unfired
C13_Witness ==
    \E c \in InFlight :
        /\ c.status = 200 /\ c.werr /\ c.pc = "flush"
        /\ exitWhenDone /\ ~once[c.path] /\ decrements[c.path] = 0

\* C14: with a timeout that is not positive the coordinator never observes
\* the deadline ("timed out") and never invokes the graceful stop because of
\* it, during and after a shutdown started by another trigger included.
C14_NoDeadlineWithoutTimeout ==
    timeOutHours <= 0 => \A i \in 1..Len(observed) : observed[i] # "timeout"

\* the graceful stop has returned at least once and the coordinator lives
StopReturned == observed # <<>> /\ coordPc = "select"

\* C15: once the graceful stop started by the first trigger has returned,
\* with or without an error, the coordinator is in a terminal state: it
\* observes nothing more and calls the graceful stop no more; the process
\* terminates; a failed graceful stop is logged and the exit code stays 0.
C15_StoppedIsTerminal ==
    /\ [][StopReturned => (observed' = observed /\ coordPc' \in {"select", "dead"})]_vars
    /\ inShutdown ~> ~Alive
    /\ [](graceExpired => exitCode \in {NoExit, ExitOk})

\* the parts of C15 about the process: it terminates once a graceful stop
\* has been started, and a failed graceful stop does not change the exit code
C15_ProcessTerminates ==
    /\ inShutdown ~> ~Alive
    /\ [](graceExpired => exitCode \in {NoExit, ExitOk})

\* C16: with a positive timeout, once the coordinator has left Running on an
\* operator signal or on all-verified, the deadline timer is stopped (the
\* deadline cannot pass any more) and the coordinator never observes the
\* deadline afterwards.
C16_TimerCanceledAtStop ==
    (timeOutHours > 0 /\ observed # <<>> /\ observed[1] \in {"signal", "done"}) =>
        /\ ~ENABLED Deadline
        /\ \A i \in 1..Len(observed) : observed[i] # "timeout"

\* the path list names some path more than once
HasDuplicate ==
    \E i, j \in 1..Len(eventHookPaths) : i # j /\ eventHookPaths[i] = eventHookPaths[j]

\* number of handlers whose latch has fired
Fired == Cardinality({p \in Paths : once[p]})

\* C17: a path list that repeats a path starts up: the registration loop
\* does not panic, the duplicates make one handler and one outstanding unit
\* (the counter is the number of distinct paths less the latches fired once
\* registration is over), and done closes when each distinct path is verified.
C17_DuplicatesCollapse ==
    HasDuplicate =>
        /\ mainPc # "panicked" /\ exitCode # ExitPanic
        /\ wgCount <= Cardinality(Configured)
        /\ mainPc \in {"listen", "serving"}
              => wgCount = Cardinality(Configured) - Fired

\* C18: with an empty path option the process starts and keeps running:
\* registration does not panic, no handler is counted, done is never closed
\* and the coordinator never observes all-verified.
C18_EmptyListNeverDone ==
    eventHookPaths = SplitPaths(<<>>) =>
        /\ mainPc # "panicked" /\ exitCode # ExitPanic
        /\ ~doneClosed
        /\ \A i \in 1..Len(observed) : observed[i] # "done"

\* C19: under every interleaving of requests the WaitGroup counter is the
\* number of registered handlers less the number of handlers whose latch has
\* fired, so it stays between 0 and the number of registered handlers; each
\* fired latch made exactly one decrement; done is closed at most once.
C19_CounterIsOutstanding ==
    /\ wgCount = Cardinality(registered) - Fired
    /\ wgCount >= 0 /\ wgCount <= Cardinality(registered)
    /\ \A p \in Paths : decrements[p] = (IF once[p] THEN 1 ELSE 0)
    /\ \A p \in Paths : once[p] => p \in registered
    /\ doneCloses <= 1

\* two handlers, one latch fired, and two requests racing in the slow path
\* of the other handler's Once
C19_Witness ==
    /\ Cardinality(registered) = 2 /\ wgCount = 1
    /\ \E c \in InFlight :
          /\ c.pc = "doSlow" /\ ~once[c.path]
          /\ CopiesIn(c, conns) = 2

====
